---- MODULE Spec2Model ----
(***************************************************************************)
(* A model of sendgrid-rs (V2 API): the Mail builder of src/mail.rs, the   *)
(* error kinds of src/errors.rs and SGClient::send of src/sg_client.rs.    *)
(*                                                                         *)
(* A Mail value is built by Mail::new and then passed by value through a   *)
(* chain of setters; add_attachment and send are fallible, build panics.   *)
(* The state is the Mail under construction, the position of the chain     *)
(* (pc), the Result of the last fallible call, the local post_body of send *)
(* and the HTTP requests issued.  The variables calls and last record the  *)
(* arguments of the calls made, so that properties can refer to them.      *)
(***************************************************************************)
EXTENDS Integers, Sequences, FiniteSets, TLC

VARIABLES mail, pc, result, post_body, requests, calls, last, ncalls

vars == <<mail, pc, result, post_body, requests, calls, last, ncalls>>

\* The longest chain of calls after Mail::new that is explored.
MaxCalls == 3

(***************************************************************************)
(* Values                                                                  *)
(***************************************************************************)

\* Option<T>: None, Some(v)
None == <<>>
Some(v) == <<v>>

\* Result<T, SendgridError>: Ok(v), Err(kind)
Ok(v) == [ok |-> TRUE, v |-> v]
Err(kind) == [ok |-> FALSE, kind |-> kind]

\* HashMap::new() and HashMap::insert (an existing entry is overwritten)
EmptyMap == [k \in {} |-> ""]
insert(m, k, v) == [x \in (DOMAIN m) \cup {k} |-> IF x = k THEN v ELSE m[x]]

\* The inputs the calls are tried with.
Destinations ==
    { [address |-> "a@x.com", name |-> "A"],
      [address |-> "b@x.com", name |-> "B"] }
Senders == { [address |-> "me@x.com", name |-> "Me"] }
Subjects == {"Test"}
Strings == {"s1", "s2"}
HeaderNames == {"X-Test", "X-A"}
HeaderValues == {"1", "2"}
ContentIds == {"cid1"}

\* A path: its OS string and whether Path::to_str succeeds (valid UTF-8).
Paths ==
    { [os |-> "a.txt", utf8 |-> TRUE],
      [os |-> "b.bin", utf8 |-> FALSE] }
\* What the file system answers to File::open and read_to_string.
FileOutcomes ==
    { [open |-> FALSE, read |-> FALSE, data |-> ""],
      [open |-> TRUE,  read |-> FALSE, data |-> ""],
      [open |-> TRUE,  read |-> TRUE,  data |-> "d1"],
      [open |-> TRUE,  read |-> TRUE,  data |-> "d2"] }
\* What the network answers to the POST and to reading the response.
NetOutcomes ==
    { [sent |-> FALSE, read |-> FALSE, status |-> 0,   body |-> ""],
      [sent |-> TRUE,  read |-> FALSE, status |-> 200, body |-> ""],
      [sent |-> TRUE,  read |-> TRUE,  status |-> 200, body |-> "{\"message\":\"success\"}"],
      [sent |-> TRUE,  read |-> TRUE,  status |-> 400, body |-> "{\"message\":\"error\"}"] }

ApiKey == "key"
API_URL == "https://api.sendgrid.com/api/mail.send.json?"

(***************************************************************************)
(* src/mail.rs: the builder                                                *)
(***************************************************************************)

\* Mail::new
new(to, subject, from) ==
    [ to |-> <<to.address>>,
      toname |-> <<to.name>>,
      cc |-> <<>>,
      ccname |-> <<>>,
      bcc |-> <<>>,
      bccname |-> <<>>,
      from |-> from.address,
      fromname |-> from.name,
      subject |-> subject,
      html |-> None,
      text |-> None,
      replyto |-> None,
      date |-> None,
      attachments |-> EmptyMap,
      content |-> EmptyMap,
      headers |-> EmptyMap,
      x_smtpapi |-> None ]

\* add_field!(method << field, fieldname): push address, push name
add_cc(self, data) ==
    [self EXCEPT !.cc = Append(@, data.address), !.ccname = Append(@, data.name)]

add_to(self, data) ==
    [self EXCEPT !.to = Append(@, data.address), !.toname = Append(@, data.name)]

add_bcc(self, data) ==
    [self EXCEPT !.bcc = Append(@, data.address), !.bccname = Append(@, data.name)]

\* add_field!(method = field): self.field = Some(data)
add_html(self, data) == [self EXCEPT !.html = Some(data)]

\* A setter of the text body that takes the two bodies for alternatives.
add_text_clearing_html(self, data) == [self EXCEPT !.text = Some(data), !.html = None]

add_text(self, data) == [self EXCEPT !.text = Some(data)]

add_reply_to(self, data) == [self EXCEPT !.replyto = Some(data)]

add_date(self, data) == [self EXCEPT !.date = Some(data)]

add_x_smtpapi(self, data) == [self EXCEPT !.x_smtpapi = Some(data)]

\* add_field!(method <- field): self.field.insert(id, data)
add_content(self, id, data) == [self EXCEPT !.content = insert(@, id, data)]

add_header(self, id, data) == [self EXCEPT !.headers = insert(@, id, data)]

\* A build whose assertion looks at the html body alone.
build_html_only(self) ==
    IF self.html # None
    THEN [panic |-> FALSE, ret |-> Some(self)]
    ELSE [panic |-> TRUE, ret |-> None]

\* Mail::build: assert!(text.is_some() || html.is_some()), then self is
\* returned.  A failed assert! panics: nothing is returned.
build(self) ==
    IF self.text # None \/ self.html # None
    THEN [panic |-> FALSE, ret |-> Some(self)]
    ELSE [panic |-> TRUE, ret |-> None]

\* Path::to_str
to_str(path) == IF path.utf8 THEN Some(path.os) ELSE None

\* An add_attachment that decodes the file name before it opens the file.
add_attachment_name_first(self, path, fs) ==
    IF to_str(path) = None THEN Err("InvalidFilename")
    ELSE IF ~fs.open \/ ~fs.read THEN Err("Io")
    ELSE Ok([self EXCEPT !.attachments = insert(@, to_str(path)[1], fs.data)])

\* Mail::add_attachment.  fs is what File::open and read_to_string answer.
add_attachment(self, path, fs) ==
    IF ~fs.open THEN Err("Io")
    ELSE IF ~fs.read THEN Err("Io")
    ELSE IF to_str(path) # None
         THEN Ok([self EXCEPT !.attachments = insert(@, to_str(path)[1], fs.data)])
         ELSE Err("InvalidFilename")

\* serde_json::to_string of a HashMap<String, &str>: a JSON object with one
\* "name":"value" member per entry, in the map's iteration order.
RECURSIVE json_members(_, _)
json_members(m, order) ==
    IF order = <<>> THEN ""
    ELSE "\"" \o Head(order) \o "\":\"" \o m[Head(order)] \o "\""
         \o (IF Tail(order) = <<>> THEN "" ELSE ",")
         \o json_members(m, Tail(order))

\* The orders a HashMap with these keys may be iterated in.
IterationOrders(m) ==
    { o \in [1..Cardinality(DOMAIN m) -> DOMAIN m] :
        \A i, j \in DOMAIN o : i # j => o[i] # o[j] }

\* Mail::make_header_string (pub(crate); no caller in the crate)
make_header_string(self, order) == Ok("{" \o json_members(self.headers, order) \o "}")

(***************************************************************************)
(* #[derive(Serialize)] on Mail and serde_urlencoded::to_string            *)
(***************************************************************************)

\* The fields of struct Mail in declaration order, which is the order the
\* derived Serialize impl hands them to the serializer, under the field's
\* own name (the struct carries no serde rename attribute).
\*   seq: Vec<&str>   str: &str   opt: Option<&str>   map: HashMap
MailFields ==
    << [name |-> "to",          kind |-> "seq"],
       [name |-> "toname",      kind |-> "seq"],
       [name |-> "cc",          kind |-> "seq"],
       [name |-> "ccname",      kind |-> "seq"],
       [name |-> "bcc",         kind |-> "seq"],
       [name |-> "bccname",     kind |-> "seq"],
       [name |-> "from",        kind |-> "str"],
       [name |-> "fromname",    kind |-> "str"],
       [name |-> "subject",     kind |-> "str"],
       [name |-> "html",        kind |-> "opt"],
       [name |-> "text",        kind |-> "opt"],
       [name |-> "replyto",     kind |-> "opt"],
       [name |-> "date",        kind |-> "opt"],
       [name |-> "attachments", kind |-> "map"],
       [name |-> "content",     kind |-> "map"],
       [name |-> "headers",     kind |-> "map"],
       [name |-> "x_smtpapi",   kind |-> "opt"] >>

\* serde_urlencoded's serializer for the value of one struct field: a string
\* is appended as the pair key=value, Some(v) as v, None appends nothing, and
\* a sequence or a map is refused (Error::Custom("unsupported value")).
\* pairs is the form body so far, as the key/value pairs handed to
\* form_urlencoded's append_pair (which percent-encodes each and joins them
\* with = and &).
serialize_field(pairs, key, kind, value) ==
    CASE kind = "str" -> Ok(Append(pairs, <<key, value>>))
      [] kind = "opt" -> IF value = None THEN Ok(pairs)
                         ELSE Ok(Append(pairs, <<key, value[1]>>))
      [] OTHER        -> Err("FormEncode")

\* The derived Mail::serialize: each field in turn, stopping at the first
\* error (try!).
RECURSIVE serialize_from(_, _, _)
serialize_from(mail_info, i, pairs) ==
    IF i > Len(MailFields) THEN Ok(pairs)
    ELSE LET f == MailFields[i]
             r == serialize_field(pairs, f.name, f.kind, mail_info[f.name])
         IN  IF r.ok THEN serialize_from(mail_info, i + 1, r.v) ELSE r

\* serde_urlencoded::to_string(mail_info)
to_string(mail_info) == serialize_from(mail_info, 1, <<>>)

(***************************************************************************)
(* src/sg_client.rs: SGClient::send                                        *)
(***************************************************************************)

\* The request send builds: the three headers and the body.
request(api_key, body) ==
    [ url |-> API_URL,
      authorization |-> "Bearer " \o api_key,
      content_type |-> "application/x-www-form-urlencoded",
      user_agent |-> "sendgrid-rs",
      body |-> body ]

\* A send that issues the POST before it looks at the encoder's Result.
send_post_first(api_key, mail_info, net) ==
    LET body == to_string(mail_info)
        req == request(api_key, IF body.ok THEN body.v ELSE <<>>)
    IN  IF ~net.sent
        THEN [post_body |-> body, requests |-> <<req>>, ret |-> Err("ReqwestError")]
        ELSE IF ~body.ok
        THEN [post_body |-> body, requests |-> <<req>>, ret |-> Err(body.kind)]
        ELSE IF ~net.read
        THEN [post_body |-> body, requests |-> <<req>>, ret |-> Err("Io")]
        ELSE [post_body |-> body, requests |-> <<req>>, ret |-> Ok(net.body)]

\* SGClient::send.  net is what the network answers.  The value is the
\* local post_body, the requests issued and the Result returned.
send(api_key, mail_info, net) ==
    LET body == to_string(mail_info) IN
    IF ~body.ok
    THEN [post_body |-> body, requests |-> <<>>, ret |-> Err(body.kind)]
    ELSE LET req == request(api_key, body.v) IN
         IF ~net.sent
         THEN [post_body |-> body, requests |-> <<req>>, ret |-> Err("ReqwestError")]
         ELSE IF ~net.read
         THEN [post_body |-> body, requests |-> <<req>>, ret |-> Err("Io")]
         ELSE [post_body |-> body, requests |-> <<req>>, ret |-> Ok(net.body)]

(***************************************************************************)
(* The state machine                                                       *)
(***************************************************************************)

NoCalls == [to |-> <<>>, cc |-> <<>>, bcc |-> <<>>]

Init ==
    \E to \in Destinations, subject \in Subjects, from \in Senders :
        /\ mail = new(to, subject, from)
        /\ pc = "building"
        /\ result = None
        /\ post_body = None
        /\ requests = <<>>
        /\ calls = [NoCalls EXCEPT !.to = <<to>>]
        /\ last = [op |-> "new", arg |-> [to |-> to, subject |-> subject, from |-> from]]
        /\ ncalls = 0

\* A call on the Mail the chain holds.
CanCall == pc = "building" /\ ncalls < MaxCalls

\* An infallible setter was called: the chain goes on with its return value.
Chained(m, op, arg) ==
    /\ mail' = m
    /\ last' = [op |-> op, arg |-> arg]
    /\ ncalls' = ncalls + 1
    /\ UNCHANGED <<pc, result, post_body, requests>>

AddTo ==
    \E data \in Destinations :
        /\ CanCall
        /\ Chained(add_to(mail, data), "add_to", data)
        /\ calls' = [calls EXCEPT !.to = Append(@, data)]

AddCc ==
    \E data \in Destinations :
        /\ CanCall
        /\ Chained(add_cc(mail, data), "add_cc", data)
        /\ calls' = [calls EXCEPT !.cc = Append(@, data)]

AddBcc ==
    \E data \in Destinations :
        /\ CanCall
        /\ Chained(add_bcc(mail, data), "add_bcc", data)
        /\ calls' = [calls EXCEPT !.bcc = Append(@, data)]

AddHtml ==
    \E data \in Strings :
        /\ CanCall
        /\ Chained(add_html(mail, data), "add_html", data)
        /\ UNCHANGED calls

AddText ==
    \E data \in Strings :
        /\ CanCall
        /\ Chained(add_text(mail, data), "add_text", data)
        /\ UNCHANGED calls

AddReplyTo ==
    \E data \in Strings :
        /\ CanCall
        /\ Chained(add_reply_to(mail, data), "add_reply_to", data)
        /\ UNCHANGED calls

AddDate ==
    \E data \in Strings :
        /\ CanCall
        /\ Chained(add_date(mail, data), "add_date", data)
        /\ UNCHANGED calls

AddXSmtpapi ==
    \E data \in Strings :
        /\ CanCall
        /\ Chained(add_x_smtpapi(mail, data), "add_x_smtpapi", data)
        /\ UNCHANGED calls

AddContent ==
    \E id \in ContentIds, data \in Strings :
        /\ CanCall
        /\ Chained(add_content(mail, id, data), "add_content", [id |-> id, data |-> data])
        /\ UNCHANGED calls

AddHeader ==
    \E id \in HeaderNames, data \in HeaderValues :
        /\ CanCall
        /\ Chained(add_header(mail, id, data), "add_header", [id |-> id, data |-> data])
        /\ UNCHANGED calls

\* Mail::build: the chain goes on with the Mail returned, or the thread
\* panics and the Mail is dropped.
Build ==
    /\ CanCall
    /\ LET b == build(mail) IN
        /\ pc' = IF b.panic THEN "panicked" ELSE "building"
        /\ mail' = IF b.panic THEN mail ELSE b.ret[1]
    /\ last' = [op |-> "build", arg |-> <<>>]
    /\ ncalls' = ncalls + 1
    /\ UNCHANGED <<result, post_body, requests, calls>>

\* Mail::add_attachment: Ok(self) goes on, Err drops the Mail it was moved.
AddAttachment ==
    \E path \in Paths, fs \in FileOutcomes :
        /\ CanCall
        /\ LET r == add_attachment(mail, path, fs) IN
            /\ result' = Some(r)
            /\ pc' = IF r.ok THEN "building" ELSE "failed"
            /\ mail' = IF r.ok THEN r.v ELSE mail
        /\ last' = [op |-> "add_attachment", arg |-> [path |-> path, fs |-> fs]]
        /\ ncalls' = ncalls + 1
        /\ UNCHANGED <<post_body, requests, calls>>

\* SGClient::send: the Mail is moved into send and consumed.
Send ==
    \E net \in NetOutcomes :
        /\ pc = "building"
        /\ LET s == send(ApiKey, mail, net) IN
            /\ post_body' = Some(s.post_body)
            /\ requests' = requests \o s.requests
            /\ result' = Some(s.ret)
        /\ pc' = "sent"
        /\ last' = [op |-> "send", arg |-> net]
        /\ UNCHANGED <<mail, calls, ncalls>>

Next ==
    \/ AddTo \/ AddCc \/ AddBcc
    \/ AddHtml \/ AddText \/ AddReplyTo \/ AddDate \/ AddXSmtpapi
    \/ AddContent \/ AddHeader
    \/ Build \/ AddAttachment \/ Send

Spec == Init /\ [][Next]_vars

(***************************************************************************)
(* Properties                                                              *)
(***************************************************************************)

\* The addresses and the names of the Destinations passed, in call order.
Addresses(ds) == [i \in 1..Len(ds) |-> ds[i].address]
Names(ds) == [i \in 1..Len(ds) |-> ds[i].name]

\* The values a form body gives a key, in the order they appear.
RECURSIVE ValuesOf(_, _)
ValuesOf(pairs, key) ==
    IF pairs = <<>> THEN <<>>
    ELSE (IF Head(pairs)[1] = key THEN <<Head(pairs)[2]>> ELSE <<>>)
         \o ValuesOf(Tail(pairs), key)

\* The Mail keeps, per list, the addresses and the names of the calls made,
\* index by index and in call order.
RecipientsParallel ==
    /\ mail.to = Addresses(calls.to) /\ mail.toname = Names(calls.to)
    /\ mail.cc = Addresses(calls.cc) /\ mail.ccname = Names(calls.cc)
    /\ mail.bcc = Addresses(calls.bcc) /\ mail.bccname = Names(calls.bcc)

\* C1: after Mail::new and any calls of add_to / add_cc / add_bcc, each
\* address sequence and its name sequence hold the addresses and the names of
\* the calls made, index by index and in call order, and the encoded body
\* lists them under to[], toname[], cc[], ccname[], bcc[], bccname[] in that
\* same order.
C1_RecipientsInOrder ==
    /\ RecipientsParallel
    /\ post_body # None =>
          /\ post_body[1].ok
          /\ ValuesOf(post_body[1].v, "to[]") = Addresses(calls.to)
          /\ ValuesOf(post_body[1].v, "toname[]") = Names(calls.to)
          /\ ValuesOf(post_body[1].v, "cc[]") = Addresses(calls.cc)
          /\ ValuesOf(post_body[1].v, "ccname[]") = Names(calls.cc)
          /\ ValuesOf(post_body[1].v, "bcc[]") = Addresses(calls.bcc)
          /\ ValuesOf(post_body[1].v, "bccname[]") = Names(calls.bcc)

C3_ExactlyOneBody ==
    [][last'.op = "build" /\ pc' = "building" =>
         (mail'.html = None) # (mail'.text = None)]_vars

\* The optional scalar fields and the form key of each.
OptionalKeys ==
    [html |-> "html", text |-> "text", replyto |-> "replyto", date |-> "date",
     x_smtpapi |-> "x-smtpapi"]

\* C4: the encoded body of every Mail holds each optional key exactly once,
\* with the empty string for a field that is None.
C4_EveryKeyPresent ==
    post_body # None =>
        /\ post_body[1].ok
        /\ \A f \in DOMAIN OptionalKeys :
              ValuesOf(post_body[1].v, OptionalKeys[f])
                  = IF mail[f] = None THEN <<"">> ELSE mail[f]

\* A Mail as Mail::new makes it, with the text body set and nothing else.
OnlyTextSet(m) ==
    /\ Len(m.to) = 1 /\ m.cc = <<>> /\ m.bcc = <<>>
    /\ m.html = None /\ m.text # None
    /\ m.replyto = None /\ m.date = None /\ m.x_smtpapi = None
    /\ DOMAIN m.attachments = {} /\ DOMAIN m.content = {} /\ DOMAIN m.headers = {}

\* C5: encoding a Mail on which only the text body was set succeeds and
\* gives to[], toname[], from, subject, html, text, fromname, replyto, date,
\* headers, x-smtpapi in this order, with html, fromname, replyto, date and
\* x-smtpapi empty and headers {}.
C5_BasicMessageBody ==
    post_body # None /\ OnlyTextSet(mail) =>
        /\ post_body[1].ok
        /\ post_body[1].v =
             << <<"to[]", mail.to[1]>>, <<"toname[]", mail.toname[1]>>,
                <<"from", mail.from>>, <<"subject", mail.subject>>,
                <<"html", "">>, <<"text", mail.text[1]>>, <<"fromname", "">>,
                <<"replyto", "">>, <<"date", "">>, <<"headers", "{}">>,
                <<"x-smtpapi", "">> >>

\* C6: the body send encodes holds the headers map as one JSON object
\* string under the single key headers, and no header name as a key.
C6_HeadersAsJson ==
    post_body # None =>
        /\ post_body[1].ok
        /\ \E order \in IterationOrders(mail.headers) :
              ValuesOf(post_body[1].v, "headers") = <<make_header_string(mail, order).v>>
        /\ \A i \in DOMAIN post_body[1].v : post_body[1].v[i][1] \notin DOMAIN mail.headers

\* C7 as stated: a path that is not UTF-8 fails with InvalidFilename whether
\* or not the file can be read, another path that cannot be read fails with
\* Io, and a success adds the entry path -> content and nothing else.
C7_AsStated ==
    [][last'.op = "add_attachment" =>
         LET path == last'.arg.path
             fs == last'.arg.fs
             r == result'[1]
         IN  /\ ~path.utf8 => r = Err("InvalidFilename")
             /\ path.utf8 /\ ~(fs.open /\ fs.read) => r = Err("Io")
             /\ r.ok => mail' = [mail EXCEPT !.attachments = insert(@, path.os, fs.data)]]_vars

\* C7, amended: a file that cannot be opened or read fails with Io, whether
\* or not the path is UTF-8; a path that is not UTF-8 fails with
\* InvalidFilename when its file was read; otherwise the call succeeds, the
\* attachments gain the entry path -> content and no other field changes.
C7_AttachmentErrors ==
    [][last'.op = "add_attachment" =>
         LET path == last'.arg.path
             fs == last'.arg.fs
             r == result'[1]
         IN  /\ ~(fs.open /\ fs.read) => r = Err("Io")
             /\ fs.open /\ fs.read /\ ~path.utf8 => r = Err("InvalidFilename")
             /\ fs.open /\ fs.read /\ path.utf8 => r.ok
             /\ r.ok =>
                   /\ mail'.attachments = insert(mail.attachments, path.os, fs.data)
                   /\ \A f \in DOMAIN mail \ {"attachments"} : mail'[f] = mail[f]
             /\ ~r.ok => pc' = "failed"]_vars

\* A path that is not UTF-8 and whose file cannot be opened: Io.
C7_Witness ==
    /\ last.op = "add_attachment"
    /\ ~last.arg.path.utf8 /\ ~last.arg.fs.open
    /\ result = Some(Err("Io"))

\* The kinds an encoding failure and a failure of the POST or of reading
\* its response are returned as (errors.rs, foreign_links).
EncodingKinds == {"FormEncode", "JSONDecode"}
TransportKinds == {"ReqwestError", "Io"}

C9_BodyWhateverStatus ==
    pc = "sent" /\ last.arg.sent /\ last.arg.read => result = Some(Ok(last.arg.body))

\* The scalar setters and the field each one stores into.
SetterField ==
    [add_html |-> "html", add_text |-> "text", add_reply_to |-> "replyto",
     add_date |-> "date", add_x_smtpapi |-> "x_smtpapi"]

\* C10: a scalar setter stores Some(value) into its own field, whatever the
\* field held, and leaves every other field as it was; so add_html keeps
\* text and add_text keeps html.
C10_SetterFrame ==
    [][last'.op \in DOMAIN SetterField =>
         /\ mail'[SetterField[last'.op]] = Some(last'.arg)
         /\ \A f \in DOMAIN mail \ {SetterField[last'.op]} : mail'[f] = mail[f]]_vars

\* add_text was called on a Mail that had html, with a text it replaces.
C10_Witness ==
    /\ last.op = "add_text"
    /\ mail.html # None
    /\ mail.text = Some(last.arg)

====
